---- MODULE Spec2Model ----
(***************************************************************************)
(* TPM 2.0 provider (src/providers/tpm/mod.rs).                            *)
(*                                                                         *)
(* Three specifications over one set of variables:                         *)
(*   ParseSpec  ProviderBuilder::get_hierarchy_auth as a pure function     *)
(*   BuildSpec  ProviderBuilder::build, statement by statement             *)
(*   Spec       caller threads invoking the Provide operations of one      *)
(*              Provider; FairSpec adds the scheduler's fairness           *)
(* A text (Rust String) is the sequence of its UTF-8 bytes; a Vec<u8> is a *)
(* sequence of bytes.                                                      *)
(***************************************************************************)
EXTENDS Integers, Sequences, FiniteSets, TLC

VARIABLES
    \* ---- ParseSpec
    pAuth,      \* argument `auth: Option<String>` of get_hierarchy_auth
    pSrc,       \* the byte sequence pAuth was hex-encoded from, or NoBytes
    pRes,       \* what get_hierarchy_auth returned, or NotRun
    \* ---- BuildSpec
    bpc,        \* position of build
    cfg,        \* the ProviderBuilder fields (self)
    input,      \* the configuration build was called with (never changes)
    device,     \* what the TPM behind the transport answers
    locals,     \* build's local variables
    sessions,   \* the sessions that are live against the device
    mem,        \* the heap buffers that hold (or held) secret text
    bresult,    \* what build returned
    \* ---- Spec
    pc,         \* position of each caller thread
    op,         \* the operation each thread is executing
    result,     \* what the thread's last operation returned
    lock,       \* holder of the esapi_context Mutex, or NoThread
    hwActive,   \* threads inside a hardware interaction on the session
    hwCount,    \* commands the hardware session has completed
    store,      \* the key-metadata store: a set of KeyRecords
    calls       \* operations invoked so far

parseVars == <<pAuth, pSrc, pRes>>
buildVars == <<bpc, cfg, input, device, locals, sessions, mem, bresult>>
opVars    == <<pc, op, result, lock, hwActive, hwCount, store, calls>>
vars      == <<parseVars, buildVars, opVars>>

(***************************************************************************)
(* Bounds                                                                  *)
(***************************************************************************)
MaxTail  == 2   \* longest text that follows a (possible) prefix
MaxBytes == 2   \* longest byte sequence that is hex-encoded
MaxCalls == 2   \* operations the caller threads invoke in one behaviour

(***************************************************************************)
(* Option<T>                                                               *)
(***************************************************************************)
None == [some |-> FALSE]
Some(v) == [some |-> TRUE, val |-> v]
IsSome(o) == o.some

(***************************************************************************)
(* Bytes and ASCII                                                         *)
(***************************************************************************)
Digits   == 48..57      \* b'0'..=b'9'
LowerHex == 97..102     \* b'a'..=b'f'
UpperHex == 65..70      \* b'A'..=b'F'

\* "str:" and "hex:" as UTF-8
AUTH_STRING_PREFIX == <<115, 116, 114, 58>>
AUTH_HEX_PREFIX    == <<104, 101, 120, 58>>

\* str::starts_with
starts_with(s, p) ==
    /\ Len(s) >= Len(p)
    /\ SubSeq(s, 1, Len(p)) = p

\* String::split_off(at): the text keeps [0, at), the returned text is
\* [at, len); panics when at > len
split_off_panics(s, at) == at > Len(s)
split_off_head(s, at) == SubSeq(s, 1, at)
split_off_tail(s, at) == SubSeq(s, at + 1, Len(s))

\* hex::decode's digit value: the value of one hex digit, -1 for any other
\* character
val(c) ==
    IF c \in UpperHex THEN c - 65 + 10
    ELSE IF c \in LowerHex THEN c - 97 + 10
    ELSE IF c \in Digits THEN c - 48
    ELSE -1

\* hex::decode: OddLength, InvalidHexCharacter, or the bytes of the pairs
hex_decode(h) ==
    IF Len(h) % 2 # 0 THEN [ok |-> FALSE, err |-> "OddLength"]
    ELSE IF \E i \in 1..Len(h) : val(h[i]) = -1
         THEN [ok |-> FALSE, err |-> "InvalidHexCharacter"]
    ELSE [ok |-> TRUE,
          bytes |-> [i \in 1..(Len(h) \div 2) |->
                        val(h[2 * i - 1]) * 16 + val(h[2 * i])]]

\* std::io::Result<Vec<u8>>
OkBytes(b) == [tag |-> "Ok", bytes |-> b]
IoErr(kind, msg) == [tag |-> "Err", kind |-> kind, msg |-> msg]
Panicked == [tag |-> "Panic"]

\* get_hierarchy_auth with the decoding result unwrapped instead of mapped
get_hierarchy_auth_no_decode_error(auth) ==
    IF ~IsSome(auth)
    THEN IoErr("InvalidData", "missing owner hierarchy auth")
    ELSE IF starts_with(auth.val, AUTH_STRING_PREFIX)
    THEN OkBytes(split_off_tail(auth.val, Len(AUTH_STRING_PREFIX)))
    ELSE IF starts_with(auth.val, AUTH_HEX_PREFIX)
    THEN LET d == hex_decode(split_off_tail(auth.val, Len(AUTH_STRING_PREFIX)))
         IN  IF d.ok THEN OkBytes(d.bytes) ELSE Panicked
    ELSE OkBytes(auth.val)

\* get_hierarchy_auth without the "str:" arm
get_hierarchy_auth_keeps_prefix(auth) ==
    IF ~IsSome(auth)
    THEN IoErr("InvalidData", "missing owner hierarchy auth")
    ELSE IF starts_with(auth.val, AUTH_HEX_PREFIX)
    THEN LET d == hex_decode(split_off_tail(auth.val, Len(AUTH_STRING_PREFIX)))
         IN  IF d.ok THEN OkBytes(d.bytes)
             ELSE IoErr("InvalidData", "invalid hex owner hierarchy auth")
    ELSE OkBytes(auth.val)

\* get_hierarchy_auth decoding what split_off leaves behind, not what it
\* returns
get_hierarchy_auth_hex_not_split(auth) ==
    IF ~IsSome(auth)
    THEN IoErr("InvalidData", "missing owner hierarchy auth")
    ELSE IF starts_with(auth.val, AUTH_STRING_PREFIX)
    THEN OkBytes(split_off_tail(auth.val, Len(AUTH_STRING_PREFIX)))
    ELSE IF starts_with(auth.val, AUTH_HEX_PREFIX)
    THEN LET d == hex_decode(split_off_head(auth.val, Len(AUTH_STRING_PREFIX)))
         IN  IF d.ok THEN OkBytes(d.bytes)
             ELSE IoErr("InvalidData", "invalid hex owner hierarchy auth")
    ELSE OkBytes(auth.val)

\* get_hierarchy_auth handing on what hex::decode found wrong with the text
get_hierarchy_auth_forwards_decode_error(auth) ==
    IF ~IsSome(auth)
    THEN IoErr("InvalidData", "missing owner hierarchy auth")
    ELSE IF starts_with(auth.val, AUTH_STRING_PREFIX)
    THEN OkBytes(split_off_tail(auth.val, Len(AUTH_STRING_PREFIX)))
    ELSE IF starts_with(auth.val, AUTH_HEX_PREFIX)
    THEN LET d == hex_decode(split_off_tail(auth.val, Len(AUTH_STRING_PREFIX)))
         IN  IF d.ok THEN OkBytes(d.bytes) ELSE IoErr("InvalidData", d.err)
    ELSE OkBytes(auth.val)

\* ProviderBuilder::get_hierarchy_auth
get_hierarchy_auth(auth) ==
    IF ~IsSome(auth)
    THEN IoErr("InvalidData", "missing owner hierarchy auth")
    ELSE IF starts_with(auth.val, AUTH_STRING_PREFIX)
    THEN IF split_off_panics(auth.val, Len(AUTH_STRING_PREFIX)) THEN Panicked
         ELSE OkBytes(split_off_tail(auth.val, Len(AUTH_STRING_PREFIX)))
    ELSE IF starts_with(auth.val, AUTH_HEX_PREFIX)
    THEN IF split_off_panics(auth.val, Len(AUTH_STRING_PREFIX)) THEN Panicked
         ELSE LET d == hex_decode(split_off_tail(auth.val,
                                                 Len(AUTH_STRING_PREFIX)))
              IN  IF d.ok THEN OkBytes(d.bytes)
                  ELSE IoErr("InvalidData", "invalid hex owner hierarchy auth")
    ELSE OkBytes(auth.val)

(***************************************************************************)
(* ParseSpec: get_hierarchy_auth applied to one input                      *)
(***************************************************************************)
NotRun  == [tag |-> "NotRun"]
NoBytes == [some |-> FALSE]

\* sequences over S of length at most n
SeqUpTo(S, n) == UNION {[1..k -> S] : k \in 0..n}

\* the bytes that are hex-encoded: both nibbles over digits and letters
SampleBytes == {0, 9, 10, 16, 127, 171, 240, 255}

\* the characters of the texts: hex digits of both cases, characters that
\* are no hex digit ('g', 'G', ':', ' '), the prefixes' own letters
TailChars == {48, 57, 97, 102, 65, 70, 103, 71, 58, 32, 115, 120}

\* what may stand where a prefix stands: nothing, the two prefixes, their
\* upper-case and capitalised forms, and a prefix without its colon
Prefixes ==
    { <<>>, AUTH_STRING_PREFIX, AUTH_HEX_PREFIX,
      <<72, 69, 88, 58>>, <<83, 116, 114, 58>>, <<83, 84, 82, 58>>,
      <<72, 101, 120, 58>>, <<104, 101, 120>>, <<115, 116, 114>> }

\* the lower-case hex digit of a nibble, as hex::encode writes it
HexDigit(n) == IF n < 10 THEN 48 + n ELSE 97 + (n - 10)

\* hex::encode
HexEncode(s) ==
    [i \in 1..(2 * Len(s)) |->
        IF i % 2 = 1 THEN HexDigit(s[(i + 1) \div 2] \div 16)
        ELSE HexDigit(s[i \div 2] % 16)]

ParseInit ==
    /\ pRes = NotRun
    /\ \/ /\ pSrc = NoBytes
          /\ \/ pAuth = None
             \/ \E p \in Prefixes, t \in SeqUpTo(TailChars, MaxTail) :
                    pAuth = Some(p \o t)
       \/ \E s \in SeqUpTo(SampleBytes, MaxBytes) :
             /\ pSrc = Some(s)
             /\ pAuth = Some(AUTH_HEX_PREFIX \o HexEncode(s))

Parse ==
    /\ pRes = NotRun
    /\ pRes' = get_hierarchy_auth(pAuth)
    /\ UNCHANGED <<pAuth, pSrc, buildVars, opVars>>

(***************************************************************************)
(* BuildSpec: ProviderBuilder::build                                       *)
(***************************************************************************)
ROOT_KEY_SIZE == 2048
ROOT_KEY_AUTH_SIZE == 32
PROVIDER_UUID == "1e4954a4-ff21-46d3-ab0c-661eeb667e1d"

\* the preference order of find_default_context_cipher
ciphers == <<"AES_256_CFB", "AES_128_CFB">>

\* the transport locators tried: Tcti::from_str accepts the first only
TctiTexts == {"mssim", "not-a-tcti"}
TctiFromStr(t) == IF t = "mssim" THEN Some([tcti |-> t]) ELSE None

\* the hierarchy secrets tried: "str:ab", "hex:0a", "hex:0aF1", "ab",
\* "hex:g0" (no hex digit), "hex:0" (odd length)
SecretTexts ==
    { AUTH_STRING_PREFIX \o <<97, 98>>,
      AUTH_HEX_PREFIX \o <<48, 97>>,
      AUTH_HEX_PREFIX \o <<48, 97, 70, 49>>,
      <<97, 98>>,
      AUTH_HEX_PREFIX \o <<103, 48>>,
      AUTH_HEX_PREFIX \o <<48>> }

OptionOf(S) == {None} \cup {Some(v) : v \in S}

\* ProviderBuilder, as the with_* methods can leave it
Configs ==
    [ provider_name : OptionOf({"tpm-provider"}),
      key_info_store : OptionOf({"key-info-store"}),
      tcti : OptionOf(TctiTexts),
      owner_hierarchy_auth : OptionOf(SecretTexts),
      endorsement_hierarchy_auth : OptionOf(SecretTexts) ]

\* the device: the ciphers whose parameters test_parms accepts, whether
\* Context::new succeeds, whether TransientKeyContextBuilder::build does
Devices ==
    [ accepts : SUBSET {"AES_256_CFB", "AES_128_CFB"},
      ctx_ok : BOOLEAN,
      real_ok : BOOLEAN ]

\* heap buffers of secret text.  "text": allocated, holds the text;
\* "bytes": the allocation is now the parsed Vec<u8>; "freed": deallocated
\* with its content left in place; "zeroed": overwritten with zeros
Buffers == {"owner_text", "owner_tail", "endorsement_text", "endorsement_tail"}

NoLocals ==
    [ owner_auth_unparsed |-> None,
      owner_auth |-> None,
      probe_result |-> None,
      default_cipher |-> None,
      tcti |-> None,
      builder |-> None,
      endorsement_auth_unparsed |-> None,
      endorsement_auth |-> None,
      parsed |-> {} ]

BuildInit ==
    /\ bpc = "take_owner"
    /\ input \in Configs
    /\ cfg = input
    /\ device \in Devices
    /\ locals = NoLocals
    /\ sessions = {}
    /\ mem = [b \in Buffers |->
                 IF b = "owner_text" /\ IsSome(input.owner_hierarchy_auth)
                     THEN "text"
                 ELSE IF b = "endorsement_text"
                         /\ IsSome(input.endorsement_hierarchy_auth)
                     THEN "text"
                 ELSE "none"]
    /\ bresult = None

\* Zeroize for Option<String>: the text the option holds is overwritten and
\* the option becomes None; an option that is None holds no text
ZeroizeMem(field, buf, m) ==
    IF IsSome(field) THEN [m EXCEPT ![buf] = "zeroed"] ELSE m

\* the buffers after get_hierarchy_auth(auth) ran on the text in `text_buf`:
\* split_off copies the tail into a new allocation (`tail_buf`) and
\* truncates the text; the truncated text is dropped when the arm ends; the
\* tail becomes the Vec<u8> ("str:") or is dropped by hex::decode ("hex:");
\* an unprefixed text becomes the Vec<u8> itself
MemAfterParse(auth, text_buf, tail_buf, m) ==
    IF ~IsSome(auth) THEN m
    ELSE IF starts_with(auth.val, AUTH_STRING_PREFIX)
    THEN [m EXCEPT ![text_buf] = "freed", ![tail_buf] = "bytes"]
    ELSE IF starts_with(auth.val, AUTH_HEX_PREFIX)
    THEN [m EXCEPT ![text_buf] = "freed", ![tail_buf] = "freed"]
    ELSE [m EXCEPT ![text_buf] = "bytes"]

\* drop of self and of the locals on an error return: what is still
\* allocated is deallocated as it is
MemAfterDrop(m) ==
    [b \in Buffers |-> IF m[b] \in {"text", "bytes"} THEN "freed" ELSE m[b]]

\* `?` on an Err: build returns it; self and the locals are dropped
ReturnErr(e, m) ==
    /\ bresult' = Some(e)
    /\ bpc' = "done"
    /\ mem' = MemAfterDrop(m)

\* the owner secret cloned out of the field instead of taken
TakeOwnerCloned ==
    /\ bpc = "take_owner"
    /\ UNCHANGED <<parseVars, opVars>>
    /\ locals' = [locals EXCEPT
                    !.owner_auth_unparsed = cfg.owner_hierarchy_auth]
    /\ bpc' = "parse_owner"
    /\ UNCHANGED <<cfg, input, device, sessions, mem, bresult>>

\* line 394
TakeOwner ==
    /\ bpc = "take_owner"
    /\ UNCHANGED <<parseVars, opVars>>
    /\ locals' = [locals EXCEPT
                    !.owner_auth_unparsed = cfg.owner_hierarchy_auth]
    /\ cfg' = [cfg EXCEPT !.owner_hierarchy_auth = None]
    /\ bpc' = "parse_owner"
    /\ UNCHANGED <<input, device, sessions, mem, bresult>>

\* line 395 with unwrap_or_default() for the `?`: an owner secret that is
\* missing or does not parse becomes the empty auth value
ParseOwnerOrDefault ==
    /\ bpc = "parse_owner"
    /\ UNCHANGED <<parseVars, opVars>>
    /\ LET r == get_hierarchy_auth(locals.owner_auth_unparsed)
           m == MemAfterParse(locals.owner_auth_unparsed,
                              "owner_text", "owner_tail", mem)
       IN  /\ locals' = [locals EXCEPT
                            !.owner_auth_unparsed = None,
                            !.owner_auth =
                                IF r.tag = "Ok" THEN Some(r.bytes)
                                ELSE Some(<<>>),
                            !.parsed = @ \cup
                                (IF IsSome(locals.owner_auth_unparsed)
                                 THEN {"owner"} ELSE {})]
           /\ mem' = m
           /\ bpc' = "open_probe"
           /\ UNCHANGED bresult
    /\ UNCHANGED <<cfg, input, device, sessions>>

\* line 395
ParseOwner ==
    /\ bpc = "parse_owner"
    /\ UNCHANGED <<parseVars, opVars>>
    /\ LET r == get_hierarchy_auth(locals.owner_auth_unparsed)
           m == MemAfterParse(locals.owner_auth_unparsed,
                              "owner_text", "owner_tail", mem)
       IN  IF r.tag = "Ok"
           THEN /\ locals' = [locals EXCEPT
                                 !.owner_auth_unparsed = None,
                                 !.owner_auth = Some(r.bytes),
                                 !.parsed = @ \cup {"owner"}]
                /\ mem' = m
                /\ bpc' = "open_probe"
                /\ UNCHANGED bresult
           ELSE /\ locals' = [locals EXCEPT
                                 !.owner_auth_unparsed = None,
                                 !.parsed = @ \cup
                                     (IF IsSome(locals.owner_auth_unparsed)
                                      THEN {"owner"} ELSE {})]
                /\ ReturnErr(r, m)
    /\ UNCHANGED <<cfg, input, device, sessions>>

\* find_default_context_cipher, lines 359-370: the probing context
OpenProbe ==
    /\ bpc = "open_probe"
    /\ UNCHANGED <<parseVars, opVars>>
    /\ IF ~IsSome(cfg.tcti)
       THEN /\ ReturnErr(IoErr("InvalidData", "TCTI configuration missing"),
                         mem)
            /\ UNCHANGED sessions
       ELSE IF ~IsSome(TctiFromStr(cfg.tcti.val))
       THEN /\ ReturnErr(IoErr("InvalidData",
                               "Invalid TCTI configuration string"), mem)
            /\ UNCHANGED sessions
       ELSE IF ~device.ctx_ok
       THEN /\ ReturnErr(IoErr("InvalidData",
                               "failed initializing TSS context"), mem)
            /\ UNCHANGED sessions
       ELSE /\ sessions' = sessions \cup {"probe"}
            /\ bpc' = "test_parms"
            /\ UNCHANGED <<mem, bresult>>
    /\ UNCHANGED <<cfg, input, device, locals>>

\* the loop without its early return: the last accepted cipher wins
FirstAcceptedNoBreak(order, accepts) ==
    LET hits == {i \in 1..Len(order) : order[i] \in accepts}
    IN  IF hits = {} THEN None
        ELSE Some(order[CHOOSE i \in hits : \A j \in hits : j <= i])

\* the first cipher of `order` that the device accepts, None when it
\* accepts none (the loop of lines 371-380)
RECURSIVE FirstAccepted(_, _)
FirstAccepted(order, accepts) ==
    IF order = <<>> THEN None
    ELSE IF Head(order) \in accepts THEN Some(Head(order))
    ELSE FirstAccepted(Tail(order), accepts)

\* find_default_context_cipher, lines 371-384: the loop over the ciphers
TestParms ==
    /\ bpc = "test_parms"
    /\ UNCHANGED <<parseVars, opVars>>
    /\ locals' = [locals EXCEPT
                    !.probe_result = FirstAccepted(ciphers, device.accepts)]
    /\ bpc' = "close_probe"
    /\ UNCHANGED <<cfg, input, device, sessions, mem, bresult>>

\* a context that is kept alive past the negotiation
CtxDropLeaks(s) == s

\* drop of tss_esapi::Context: the session is closed
CtxDrop(s) == s \ {"probe"}

\* find_default_context_cipher returns (lines 378, 381-385): ctx goes out
\* of scope; line 396 takes the cipher or returns the error
CloseProbe ==
    /\ bpc = "close_probe"
    /\ UNCHANGED <<parseVars, opVars>>
    /\ sessions' = CtxDrop(sessions)
    /\ IF IsSome(locals.probe_result)
       THEN /\ locals' = [locals EXCEPT
                             !.default_cipher = locals.probe_result]
            /\ bpc' = "parse_tcti"
            /\ UNCHANGED <<mem, bresult>>
       ELSE /\ ReturnErr(IoErr("Other", "desired ciphers not supported"), mem)
            /\ UNCHANGED locals
    /\ UNCHANGED <<cfg, input, device>>

\* lines 397-402
ParseTcti ==
    /\ bpc = "parse_tcti"
    /\ UNCHANGED <<parseVars, opVars>>
    /\ IF ~IsSome(cfg.tcti)
       THEN /\ ReturnErr(IoErr("InvalidData", "TCTI configuration missing"),
                         mem)
            /\ UNCHANGED locals
       ELSE IF ~IsSome(TctiFromStr(cfg.tcti.val))
       THEN /\ ReturnErr(IoErr("InvalidData",
                               "Invalid TCTI configuration string"), mem)
            /\ UNCHANGED locals
       ELSE /\ locals' = [locals EXCEPT !.tcti = TctiFromStr(cfg.tcti.val)]
            /\ bpc' = "scrub"
            /\ UNCHANGED <<mem, bresult>>
    /\ UNCHANGED <<cfg, input, device, sessions>>

\* the scrub without line 403
ScrubOwnerOnly ==
    /\ bpc = "scrub"
    /\ UNCHANGED <<parseVars, opVars>>
    /\ mem' = ZeroizeMem(cfg.owner_hierarchy_auth, "owner_text", mem)
    /\ cfg' = [cfg EXCEPT !.owner_hierarchy_auth = None]
    /\ bpc' = "builder"
    /\ UNCHANGED <<input, device, locals, sessions, bresult>>

\* lines 403-404
Scrub ==
    /\ bpc = "scrub"
    /\ UNCHANGED <<parseVars, opVars>>
    /\ mem' = ZeroizeMem(cfg.owner_hierarchy_auth, "owner_text", mem)
    /\ cfg' = [cfg EXCEPT !.tcti = None, !.owner_hierarchy_auth = None]
    /\ bpc' = "builder"
    /\ UNCHANGED <<input, device, locals, sessions, bresult>>

\* lines 405-412
MakeBuilder ==
    /\ bpc = "builder"
    /\ UNCHANGED <<parseVars, opVars>>
    /\ locals' = [locals EXCEPT !.builder = Some(
            [ tcti |-> locals.tcti.val,
              root_key_size |-> ROOT_KEY_SIZE,
              root_key_auth_size |-> ROOT_KEY_AUTH_SIZE,
              owner_auth |-> locals.owner_auth,
              endorsement_auth |-> None,
              root_hierarchy |-> "Owner",
              session_hash_alg |-> "Sha256",
              default_context_cipher |-> locals.default_cipher ])]
    /\ bpc' = "endorsement"
    /\ UNCHANGED <<cfg, input, device, sessions, mem, bresult>>

\* an endorsement secret that is demanded like the owner secret
TakeEndorsementRequired ==
    /\ bpc = "endorsement"
    /\ UNCHANGED <<parseVars, opVars>>
    /\ IF IsSome(cfg.endorsement_hierarchy_auth)
       THEN /\ locals' = [locals EXCEPT !.endorsement_auth_unparsed =
                             cfg.endorsement_hierarchy_auth]
            /\ cfg' = [cfg EXCEPT !.endorsement_hierarchy_auth = None]
            /\ bpc' = "parse_endorsement"
            /\ UNCHANGED <<mem, bresult>>
       ELSE /\ ReturnErr(get_hierarchy_auth(None), mem)
            /\ UNCHANGED <<cfg, locals>>
    /\ UNCHANGED <<input, device, sessions>>

\* lines 413-414
TakeEndorsement ==
    /\ bpc = "endorsement"
    /\ UNCHANGED <<parseVars, opVars>>
    /\ IF IsSome(cfg.endorsement_hierarchy_auth)
       THEN /\ locals' = [locals EXCEPT !.endorsement_auth_unparsed =
                             cfg.endorsement_hierarchy_auth]
            /\ cfg' = [cfg EXCEPT !.endorsement_hierarchy_auth = None]
            /\ bpc' = "parse_endorsement"
       ELSE /\ bpc' = "check_name"
            /\ UNCHANGED <<cfg, locals>>
    /\ UNCHANGED <<input, device, sessions, mem, bresult>>

\* line 415 without the `?`: an endorsement secret that does not parse is
\* passed over
ParseEndorsementLenient ==
    /\ bpc = "parse_endorsement"
    /\ UNCHANGED <<parseVars, opVars>>
    /\ LET r == get_hierarchy_auth(locals.endorsement_auth_unparsed)
           m == MemAfterParse(locals.endorsement_auth_unparsed,
                              "endorsement_text", "endorsement_tail", mem)
       IN  /\ locals' = [locals EXCEPT
                            !.endorsement_auth_unparsed = None,
                            !.endorsement_auth =
                                IF r.tag = "Ok" THEN Some(r.bytes) ELSE None,
                            !.parsed = @ \cup {"endorsement"}]
           /\ mem' = m
           /\ bpc' = IF r.tag = "Ok" THEN "bind_endorsement" ELSE "check_name"
           /\ UNCHANGED bresult
    /\ UNCHANGED <<cfg, input, device, sessions>>

\* line 415
ParseEndorsement ==
    /\ bpc = "parse_endorsement"
    /\ UNCHANGED <<parseVars, opVars>>
    /\ LET r == get_hierarchy_auth(locals.endorsement_auth_unparsed)
           m == MemAfterParse(locals.endorsement_auth_unparsed,
                              "endorsement_text", "endorsement_tail", mem)
       IN  /\ locals' = [locals EXCEPT
                            !.endorsement_auth_unparsed = None,
                            !.endorsement_auth =
                                IF r.tag = "Ok" THEN Some(r.bytes) ELSE None,
                            !.parsed = @ \cup {"endorsement"}]
           /\ IF r.tag = "Ok"
              THEN /\ mem' = m
                   /\ bpc' = "bind_endorsement"
                   /\ UNCHANGED bresult
              ELSE ReturnErr(r, m)
    /\ UNCHANGED <<cfg, input, device, sessions>>

\* a builder whose with_hierarchy_auth result is discarded
BindEndorsementSkipped(b, auth) == b

\* TransientKeyContextBuilder::with_hierarchy_auth(Hierarchy::Endorsement, _)
BindEndorsement(b, auth) == [b EXCEPT !.endorsement_auth = auth]

\* line 416
WithEndorsement ==
    /\ bpc = "bind_endorsement"
    /\ UNCHANGED <<parseVars, opVars>>
    /\ locals' = [locals EXCEPT
                    !.builder = Some(BindEndorsement(locals.builder.val,
                                                     locals.endorsement_auth)),
                    !.endorsement_auth = None]
    /\ bpc' = "scrub_endorsement"
    /\ UNCHANGED <<cfg, input, device, sessions, mem, bresult>>

\* line 417
ScrubEndorsement ==
    /\ bpc = "scrub_endorsement"
    /\ UNCHANGED <<parseVars, opVars>>
    /\ mem' = ZeroizeMem(cfg.endorsement_hierarchy_auth,
                         "endorsement_text", mem)
    /\ cfg' = [cfg EXCEPT !.endorsement_hierarchy_auth = None]
    /\ bpc' = "check_name"
    /\ UNCHANGED <<input, device, locals, sessions, bresult>>

\* builder.build() evaluated ahead of the provider name: the real session
\* is open when the name is looked at
CheckNameAfterContext ==
    /\ bpc = "check_name"
    /\ UNCHANGED <<parseVars, opVars>>
    /\ sessions' = IF device.real_ok THEN sessions \cup {"real"} ELSE sessions
    /\ IF IsSome(cfg.provider_name)
       THEN /\ bpc' = "check_store"
            /\ UNCHANGED <<mem, bresult>>
       ELSE ReturnErr(IoErr("InvalidData", "missing provider name"), mem)
    /\ UNCHANGED <<cfg, input, device, locals>>

\* lines 420-422
CheckName ==
    /\ bpc = "check_name"
    /\ UNCHANGED <<parseVars, opVars>>
    /\ IF IsSome(cfg.provider_name)
       THEN /\ bpc' = "check_store"
            /\ UNCHANGED <<mem, bresult>>
       ELSE ReturnErr(IoErr("InvalidData", "missing provider name"), mem)
    /\ UNCHANGED <<cfg, input, device, locals, sessions>>

\* lines 423-425
CheckStore ==
    /\ bpc = "check_store"
    /\ UNCHANGED <<parseVars, opVars>>
    /\ IF IsSome(cfg.key_info_store)
       THEN /\ bpc' = "build_context"
            /\ UNCHANGED <<mem, bresult>>
       ELSE ReturnErr(IoErr("InvalidData", "missing key info store"), mem)
    /\ UNCHANGED <<cfg, input, device, locals, sessions>>

\* Provider::new
ProviderNew(provider_name, key_info_store, esapi_context) ==
    [ provider_identity |-> [name |-> provider_name, uuid |-> PROVIDER_UUID],
      esapi_context |-> esapi_context,
      key_info_store |-> key_info_store ]

\* lines 419, 426-430: TransientKeyContextBuilder::build opens the real
\* session, or fails leaving none; Provider::new wraps it
BuildContext ==
    /\ bpc = "build_context"
    /\ UNCHANGED <<parseVars, opVars>>
    /\ IF device.real_ok
       THEN /\ sessions' = sessions \cup {"real"}
            /\ bresult' = Some([tag |-> "Ok",
                                provider |-> ProviderNew(cfg.provider_name.val,
                                                         cfg.key_info_store.val,
                                                         locals.builder.val)])
            /\ bpc' = "done"
            /\ UNCHANGED mem
       ELSE /\ ReturnErr(IoErr("InvalidData",
                               "failed initializing TSS context"), mem)
            /\ UNCHANGED sessions
    /\ UNCHANGED <<cfg, input, device, locals>>

BuildNext ==
    \/ TakeOwner
    \/ ParseOwner
    \/ OpenProbe
    \/ TestParms
    \/ CloseProbe
    \/ ParseTcti
    \/ Scrub
    \/ MakeBuilder
    \/ TakeEndorsement
    \/ ParseEndorsement
    \/ WithEndorsement
    \/ ScrubEndorsement
    \/ CheckName
    \/ CheckStore
    \/ BuildContext

(***************************************************************************)
(* Spec: caller threads on one Provider                                    *)
(***************************************************************************)
NumThreads == 2
Threads == 1..NumThreads
NoThread == 0

Apps  == {"A", "B"}         \* application identities
Names == {"k1", "k2"}       \* key names

SUPPORTED_OPCODES ==
    { "PsaGenerateKey", "PsaGenerateRandom", "PsaDestroyKey", "PsaSignHash",
      "PsaVerifyHash", "PsaImportKey", "PsaExportPublicKey",
      "PsaAsymmetricDecrypt", "PsaAsymmetricEncrypt", "CanDoCrypto",
      "AttestKey", "PrepareKeyAttestation" }

\* op[t] is [kind, app, name]; "-": the operation has no such input
NoOp == [kind |-> "-", app |-> "-", name |-> "-"]

\* what the hardware primitive can answer besides success
HwErrors == {"DeviceError", "ValidationError"}

Pending == [status |-> "Pending"]
Ok == [status |-> "Ok"]
Failed(e) == [status |-> e]

OpInit ==
    /\ pc = [t \in Threads |-> "idle"]
    /\ op = [t \in Threads |-> NoOp]
    /\ result = [t \in Threads |-> Pending]
    /\ lock = NoThread
    /\ hwActive = {}
    /\ hwCount = 0
    /\ store = {}
    /\ calls = 0

\* a store that resolves a key by its name alone
ExistsAnyCaller(st, app, name) == \E r \in st : r.name = name

\* KeyRecords are keyed by (caller identity, key name)
Exists(st, app, name) == \E r \in st : r.app = app /\ r.name = name

\* a caller thread invokes operation o of the Provide trait
Invoke(t, o) ==
    /\ pc[t] = "idle"
    /\ calls < MaxCalls
    /\ calls' = calls + 1
    /\ op' = [op EXCEPT ![t] = o]
    /\ UNCHANGED <<parseVars, buildVars>>

\* the operation returns r to its caller
Return(t, r) ==
    /\ result' = [result EXCEPT ![t] = r]
    /\ pc' = [pc EXCEPT ![t] = "idle"]

\* the operation goes on to acquire the session
ToSession(t) ==
    /\ result' = [result EXCEPT ![t] = Pending]
    /\ pc' = [pc EXCEPT ![t] = "waiting"]

\* describe going through the session like the hardware operations
describe_locking(t) ==
    /\ Invoke(t, [kind |-> "describe", app |-> "-", name |-> "-"])
    /\ ToSession(t)
    /\ UNCHANGED <<lock, hwActive, hwCount, store>>

\* Provider::describe (`during`, here and in can_do_crypto, is no part of
\* the reply: it records who held the session mutex while the call ran)
describe(t) ==
    /\ Invoke(t, [kind |-> "describe", app |-> "-", name |-> "-"])
    /\ Return(t, [status |-> "Ok",
                   info |-> [uuid |-> PROVIDER_UUID, id |-> "Tpm"],
                   opcodes |-> SUPPORTED_OPCODES,
                   during |-> lock])
    /\ UNCHANGED <<lock, hwActive, hwCount, store>>

\* Provider::can_do_crypto: can_do_crypto_main answers from the static
\* knowledge of what the provider supports
can_do_crypto(t) ==
    /\ Invoke(t, [kind |-> "can_do_crypto", app |-> "-", name |-> "-"])
    /\ Return(t, [status |-> "Ok", can_do |-> TRUE, during |-> lock])
    /\ UNCHANGED <<lock, hwActive, hwCount, store>>

\* Provider::list_keys: the caller's keys, from the key-metadata store
list_keys(t) ==
    /\ \E a \in Apps :
          /\ Invoke(t, [kind |-> "list_keys", app |-> a, name |-> "-"])
          /\ Return(t, [status |-> "Ok",
                         keys |-> {r.name : r \in {x \in store : x.app = a}}])
    /\ UNCHANGED <<lock, hwActive, hwCount, store>>

\* Provider::psa_generate_random, up to the acquisition of the session
psa_generate_random(t) ==
    /\ Invoke(t, [kind |-> "psa_generate_random", app |-> "-", name |-> "-"])
    /\ ToSession(t)
    /\ UNCHANGED <<lock, hwActive, hwCount, store>>

\* Provider::psa_generate_key, up to the acquisition of the session: a name
\* the caller has already registered is a conflict
psa_generate_key(t) ==
    /\ \E a \in Apps, n \in Names :
          /\ Invoke(t, [kind |-> "psa_generate_key", app |-> a, name |-> n])
          /\ IF Exists(store, a, n)
             THEN Return(t, Failed("ConflictError"))
             ELSE ToSession(t)
    /\ UNCHANGED <<lock, hwActive, hwCount, store>>

\* a destroy that reports success for a key the caller never registered
psa_destroy_key_idempotent(t) ==
    /\ \E a \in Apps, n \in Names :
          /\ Invoke(t, [kind |-> "psa_destroy_key", app |-> a, name |-> n])
          /\ IF Exists(store, a, n)
             THEN ToSession(t)
             ELSE Return(t, Ok)
    /\ UNCHANGED <<lock, hwActive, hwCount, store>>

\* Provider::psa_destroy_key, up to the acquisition of the session: the
\* KeyRecord is resolved under the caller's identity
psa_destroy_key(t) ==
    /\ \E a \in Apps, n \in Names :
          /\ Invoke(t, [kind |-> "psa_destroy_key", app |-> a, name |-> n])
          /\ IF Exists(store, a, n)
             THEN ToSession(t)
             ELSE Return(t, Failed("NotFoundError"))
    /\ UNCHANGED <<lock, hwActive, hwCount, store>>

\* a lock that is granted whoever holds it
MutexLockUnguarded(l) == TRUE

\* Mutex::lock returns once no thread holds the mutex
MutexLockable(l) == l = NoThread

\* a guard that is released on the success path only
GuardDropKeptOnError(t, l, status) ==
    IF l = t /\ status = "Ok" THEN NoThread ELSE l

\* drop of the MutexGuard when the operation returns, with whatever status
GuardDrop(t, l, status) == IF l = t THEN NoThread ELSE l

\* self.esapi_context.lock(): the thread blocks until it holds the mutex
Acquire(t) ==
    /\ pc[t] = "waiting"
    /\ UNCHANGED <<parseVars, buildVars>>
    /\ MutexLockable(lock)
    /\ lock' = t
    /\ pc' = [pc EXCEPT ![t] = "locked"]
    /\ UNCHANGED <<op, result, hwActive, hwCount, store, calls>>

\* the hardware primitive is invoked through the guard
HwStart(t) ==
    /\ pc[t] = "locked"
    /\ UNCHANGED <<parseVars, buildVars>>
    /\ hwActive' = hwActive \cup {t}
    /\ pc' = [pc EXCEPT ![t] = "hw"]
    /\ UNCHANGED <<op, result, lock, hwCount, store, calls>>

\* the hardware primitive returns: success, or an error that ends the
\* operation
HwEnd(t) ==
    /\ pc[t] = "hw"
    /\ UNCHANGED <<parseVars, buildVars>>
    /\ hwActive' = hwActive \ {t}
    /\ hwCount' = hwCount + 1
    /\ \/ /\ pc' = [pc EXCEPT ![t] = "update"]
          /\ UNCHANGED result
       \/ \E e \in HwErrors :
             /\ result' = [result EXCEPT ![t] = Failed(e)]
             /\ pc' = [pc EXCEPT ![t] = "release"]
    /\ UNCHANGED <<op, lock, store, calls>>

\* an insert that registers the record whatever the store holds
StoreInsertBlind(st, app, name, blob) ==
    [ok |-> TRUE, store |-> st \cup {[app |-> app, name |-> name, blob |-> blob]}]

\* key-metadata store, insert: a name already registered under the caller
\* is a conflict
StoreInsert(st, app, name, blob) ==
    IF Exists(st, app, name) THEN [ok |-> FALSE, store |-> st]
    ELSE [ok |-> TRUE,
          store |-> st \cup {[app |-> app, name |-> name, blob |-> blob]}]

\* key-metadata store, remove
StoreRemove(st, app, name) ==
    IF Exists(st, app, name)
    THEN [ok |-> TRUE,
          store |-> {r \in st : ~(r.app = app /\ r.name = name)}]
    ELSE [ok |-> FALSE, store |-> st]

\* the *_internal operations, last part: the key-metadata store is updated
\* if the state changed (new key, destroyed key)
UpdateStore(t) ==
    /\ pc[t] = "update"
    /\ UNCHANGED <<parseVars, buildVars>>
    /\ IF op[t].kind = "psa_generate_key"
       THEN LET r == StoreInsert(store, op[t].app, op[t].name, t)
            IN  /\ store' = r.store
                /\ result' = [result EXCEPT ![t] =
                                 IF r.ok THEN Ok
                                 ELSE Failed("ConflictError")]
       ELSE IF op[t].kind = "psa_destroy_key"
       THEN LET r == StoreRemove(store, op[t].app, op[t].name)
            IN  /\ store' = r.store
                /\ result' = [result EXCEPT ![t] =
                                 IF r.ok THEN Ok
                                 ELSE Failed("NotFoundError")]
       ELSE /\ result' = [result EXCEPT ![t] = Ok]
            /\ UNCHANGED store
    /\ pc' = [pc EXCEPT ![t] = "release"]
    /\ UNCHANGED <<op, lock, hwActive, hwCount, calls>>

\* the operation returns: the guard goes out of scope
Release(t) ==
    /\ pc[t] = "release"
    /\ UNCHANGED <<parseVars, buildVars>>
    /\ lock' = GuardDrop(t, lock, result[t].status)
    /\ pc' = [pc EXCEPT ![t] = "idle"]
    /\ UNCHANGED <<op, result, hwActive, hwCount, store, calls>>

\* what a thread does once it is inside an operation
Step(t) ==
    \/ Acquire(t)
    \/ HwStart(t)
    \/ HwEnd(t)
    \/ UpdateStore(t)
    \/ Release(t)

(***************************************************************************)
(* The specifications                                                      *)
(***************************************************************************)
ParseIdle ==
    /\ pAuth = None
    /\ pSrc = NoBytes
    /\ pRes = NotRun

BuildIdle ==
    /\ bpc = "idle"
    /\ input = None
    /\ cfg = None
    /\ device = None
    /\ locals = NoLocals
    /\ sessions = {}
    /\ mem = [b \in Buffers |-> "none"]
    /\ bresult = None

OpIdle ==
    /\ pc = [t \in Threads |-> "idle"]
    /\ op = [t \in Threads |-> NoOp]
    /\ result = [t \in Threads |-> Pending]
    /\ lock = NoThread
    /\ hwActive = {}
    /\ hwCount = 0
    /\ store = {}
    /\ calls = MaxCalls

ParseStart == ParseInit /\ BuildIdle /\ OpIdle

ParseNext == Parse

ParseSpec == ParseStart /\ [][ParseNext]_vars

BuildStart == BuildInit /\ ParseIdle /\ OpIdle

BuildSpec == BuildStart /\ [][BuildNext]_vars

Init == OpInit /\ ParseIdle /\ BuildIdle

\* a thread invokes an operation
Call(t) ==
    \/ describe(t)
    \/ can_do_crypto(t)
    \/ list_keys(t)
    \/ psa_generate_random(t)
    \/ psa_generate_key(t)
    \/ psa_destroy_key(t)

Next == \E t \in Threads : Call(t) \/ Step(t)

Spec == Init /\ [][Next]_vars

\* every thread inside an operation keeps running and the hardware answers;
\* nothing is assumed about the order in which the mutex serves its waiters
FairSpec == Spec /\ \A t \in Threads : WF_vars(Step(t))

(***************************************************************************)
(* Properties of get_hierarchy_auth (ParseSpec)                            *)
(***************************************************************************)
\* text t begins with the four characters of p, compared byte for byte
BeginsWith(t, p) ==
    /\ Len(t) >= 4
    /\ \A i \in 1..4 : t[i] = p[i]

\* text t without its first four characters
AfterPrefix(t) == [i \in 1..(Len(t) - 4) |-> t[i + 4]]

IsHexDigit(c) == c \in Digits \cup LowerHex \cup UpperHex

\* C8: hex round trip: for every byte sequence s, get_hierarchy_auth of
\* "hex:" followed by the hexadecimal encoding of s returns exactly s.
C8_HexRoundTrip ==
    (pRes # NotRun /\ IsSome(pSrc)) => pRes = OkBytes(pSrc.val)

\* a two-byte sequence with letter and digit nibbles came back
C8_Witness ==
    /\ IsSome(pSrc)
    /\ pSrc.val = <<171, 9>>
    /\ pRes = OkBytes(<<171, 9>>)

\* C9: get_hierarchy_auth("str:" + t) returns the bytes of t, and a text
\* that begins with neither "str:" nor "hex:" (compared case-sensitively)
\* comes back whole.
C9_StrAndBare ==
    (pRes # NotRun /\ IsSome(pAuth)) =>
        /\ BeginsWith(pAuth.val, AUTH_STRING_PREFIX)
              => pRes = OkBytes(AfterPrefix(pAuth.val))
        /\ (~BeginsWith(pAuth.val, AUTH_STRING_PREFIX)
            /\ ~BeginsWith(pAuth.val, AUTH_HEX_PREFIX))
              => pRes = OkBytes(pAuth.val)

\* "str:0a" gave "0a"
C9_Witness ==
    /\ pAuth = Some(AUTH_STRING_PREFIX \o <<48, 97>>)
    /\ pRes = OkBytes(<<48, 97>>)

\* "HEX:0a" is no prefixed text and came back whole
C9_WitnessUpperCase ==
    /\ pAuth = Some(<<72, 69, 88, 58, 48, 97>>)
    /\ pRes = OkBytes(<<72, 69, 88, 58, 48, 97>>)

\* C10: a text whose part after "hex:" has odd length or holds a character
\* that is no hex digit gives an InvalidData error; no input makes
\* get_hierarchy_auth panic; no secret at all gives an error value too.
C10_DecodeErrors ==
    pRes # NotRun =>
        /\ pRes.tag # "Panic"
        /\ ~IsSome(pAuth) => (pRes.tag = "Err" /\ pRes.kind = "InvalidData")
        /\ (/\ IsSome(pAuth)
            /\ BeginsWith(pAuth.val, AUTH_HEX_PREFIX)
            /\ \/ Len(AfterPrefix(pAuth.val)) % 2 = 1
               \/ \E i \in 5..Len(pAuth.val) : ~IsHexDigit(pAuth.val[i]))
              => (pRes.tag = "Err" /\ pRes.kind = "InvalidData")

\* "hex:0" (odd length) was refused
C10_Witness ==
    /\ pAuth = Some(AUTH_HEX_PREFIX \o <<48>>)
    /\ pRes.tag = "Err"

\* "hex:g0" (no hex digit) was refused
C10_WitnessNonHex ==
    /\ pAuth = Some(AUTH_HEX_PREFIX \o <<103, 48>>)
    /\ pRes.tag = "Err"

(***************************************************************************)
(* Properties of ProviderBuilder::build (BuildSpec)                        *)
(***************************************************************************)
Returned == bpc = "done"
ReturnedOk == Returned /\ IsSome(bresult) /\ bresult.val.tag = "Ok"
ReturnedErr == Returned /\ IsSome(bresult) /\ bresult.val.tag = "Err"

\* the cipher the negotiation has to pick on this device
PreferredCipher ==
    IF "AES_256_CFB" \in device.accepts THEN "AES_256_CFB" ELSE "AES_128_CFB"

\* C5: build is atomic: it returns either a Provider whose session is fully
\* configured (owner auth bound, negotiated cipher set, endorsement auth
\* bound if and only if an endorsement secret was supplied) or an error
\* with no Provider and no session, probing or real, left open; before it
\* returns nothing is handed to the caller.
C5_BuildAtomic ==
    /\ ~Returned => bresult = None
    /\ Returned => (ReturnedOk \/ ReturnedErr)
    /\ ReturnedErr => sessions = {}
    /\ ReturnedOk =>
          LET ctx == bresult.val.provider.esapi_context
          IN  /\ sessions = {"real"}
              /\ ctx.owner_auth =
                     Some(get_hierarchy_auth(input.owner_hierarchy_auth).bytes)
              /\ ctx.default_context_cipher = Some(PreferredCipher)
              /\ IsSome(ctx.endorsement_auth)
                     <=> IsSome(input.endorsement_hierarchy_auth)
              /\ IsSome(input.endorsement_hierarchy_auth) =>
                     ctx.endorsement_auth = Some(get_hierarchy_auth(
                         input.endorsement_hierarchy_auth).bytes)
              /\ ctx.root_key_size = ROOT_KEY_SIZE
              /\ ctx.root_key_auth_size = ROOT_KEY_AUTH_SIZE
              /\ ctx.session_hash_alg = "Sha256"

\* a Provider was returned for a configuration with an endorsement secret
C5_Witness ==
    /\ ReturnedOk
    /\ IsSome(input.endorsement_hierarchy_auth)

\* build failed after the real builder was set up, with nothing left open
C5_WitnessErr ==
    /\ ReturnedErr
    /\ IsSome(locals.builder)
    /\ sessions = {}

\* C6: during build two sessions are never live against the device: the
\* probing session of find_default_context_cipher is closed on every exit
\* path of that function, before the real session is opened.
C6_OneSessionAtATime ==
    /\ Cardinality(sessions) <= 1
    /\ "probe" \in sessions => bpc \in {"test_parms", "close_probe"}

\* the real session is live, after a probing session had been opened
C6_Witness ==
    /\ sessions = {"real"}
    /\ IsSome(locals.default_cipher)

\* the negotiation found no cipher and build returned with no session live
C6_WitnessNoCipher ==
    /\ ReturnedErr
    /\ bresult.val.msg = "desired ciphers not supported"
    /\ sessions = {}

\* C7: whenever build parsed a hierarchy secret, the buffer that held its
\* text has been overwritten with zeros by the time build returns, parsing
\* succeeded or not, and no copy of the text is left un-zeroed.
C7_SecretTextZeroed ==
    Returned =>
        /\ "owner" \in locals.parsed =>
              /\ mem["owner_text"] \in {"zeroed", "bytes"}
              /\ mem["owner_tail"] \in {"none", "zeroed", "bytes"}
        /\ "endorsement" \in locals.parsed =>
              /\ mem["endorsement_text"] \in {"zeroed", "bytes"}
              /\ mem["endorsement_tail"] \in {"none", "zeroed", "bytes"}

\* the probing session was opened: the owner secret parsed, the transport
\* locator is one Tcti::from_str accepts and Context::new succeeded
ProbeRan ==
    /\ get_hierarchy_auth(input.owner_hierarchy_auth).tag = "Ok"
    /\ IsSome(input.tcti)
    /\ input.tcti.val = "mssim"
    /\ device.ctx_ok

\* C11: whatever set of ciphers the device accepts, the negotiation yields
\* the first accepted cipher of [AES-256-CFB, AES-128-CFB]: AES-256-CFB
\* whenever it is accepted, AES-128-CFB when only that is, and the
\* capability error (kind Other) exactly when the device accepts neither.
C11_FirstAcceptedCipher ==
    /\ bpc = "close_probe" =>
          locals.probe_result =
              IF device.accepts = {} THEN None ELSE Some(PreferredCipher)
    /\ IsSome(locals.default_cipher) =>
          /\ device.accepts # {}
          /\ locals.default_cipher = Some(PreferredCipher)
    /\ Returned =>
          ((ReturnedErr /\ bresult.val.kind = "Other")
              <=> (ProbeRan /\ device.accepts = {}))
    /\ (ReturnedErr /\ bresult.val.kind = "Other") =>
          bresult.val.msg = "desired ciphers not supported"

\* a device accepting only AES-128-CFB got AES-128-CFB
C11_Witness ==
    /\ device.accepts = {"AES_128_CFB"}
    /\ locals.default_cipher = Some("AES_128_CFB")

\* a device accepting both got AES-256-CFB
C11_WitnessBoth ==
    /\ device.accepts = {"AES_256_CFB", "AES_128_CFB"}
    /\ locals.default_cipher = Some("AES_256_CFB")

\* a device accepting neither got the capability error
C11_WitnessNeither ==
    /\ device.accepts = {}
    /\ ReturnedErr
    /\ bresult.val.kind = "Other"

\* a secret text that get_hierarchy_auth has to refuse: "hex:" followed by
\* an odd number of characters or by a character that is no hex digit
Malformed(t) ==
    /\ BeginsWith(t, AUTH_HEX_PREFIX)
    /\ \/ Len(AfterPrefix(t)) % 2 = 1
       \/ \E i \in 5..Len(t) : ~IsHexDigit(t[i])

\* the device lets both contexts be created and accepts a cipher
DeviceWorks == device.ctx_ok /\ device.real_ok /\ device.accepts # {}

\* C12 as stated: build fails with a configuration error without an owner
\* secret and succeeds otherwise, on defaults alone (here even granting a
\* well-formed owner secret and a working device).
C12_SucceedsOnDefaults ==
    Returned =>
        /\ ~IsSome(input.owner_hierarchy_auth) =>
              (ReturnedErr /\ bresult.val.kind = "InvalidData")
        /\ (/\ IsSome(input.owner_hierarchy_auth)
            /\ ~Malformed(input.owner_hierarchy_auth.val)
            /\ DeviceWorks) => ReturnedOk

\* C12, amended: build fails with the configuration error "missing owner
\* hierarchy auth" without an owner secret; nothing is defaulted, and it
\* succeeds exactly when a well-formed owner secret, the provider name, the
\* key info store and a valid transport locator are supplied, a supplied
\* endorsement secret is well-formed and the device works; no endorsement
\* secret is needed.
C12_OwnerRequired ==
    Returned =>
        /\ ~IsSome(input.owner_hierarchy_auth) =>
              /\ ReturnedErr
              /\ bresult.val.kind = "InvalidData"
              /\ bresult.val.msg = "missing owner hierarchy auth"
        /\ ReturnedOk <=>
              /\ IsSome(input.owner_hierarchy_auth)
              /\ ~Malformed(input.owner_hierarchy_auth.val)
              /\ input.tcti = Some("mssim")
              /\ IsSome(input.provider_name)
              /\ IsSome(input.key_info_store)
              /\ IsSome(input.endorsement_hierarchy_auth) =>
                    ~Malformed(input.endorsement_hierarchy_auth.val)
              /\ DeviceWorks

\* build succeeded with no endorsement secret
C12_Witness ==
    /\ ReturnedOk
    /\ ~IsSome(input.endorsement_hierarchy_auth)

\* build failed for want of an owner secret, all else being supplied
C12_WitnessNoOwner ==
    /\ ReturnedErr
    /\ ~IsSome(input.owner_hierarchy_auth)
    /\ IsSome(input.provider_name)
    /\ IsSome(input.key_info_store)
    /\ input.tcti = Some("mssim")

\* all that an error may tell of a secret: absent, malformed or valid
SecretClass(o) ==
    IF ~IsSome(o) THEN "absent"
    ELSE IF Malformed(o.val) THEN "malformed"
    ELSE "valid"

\* the error of a failing build, from the classes of the two secrets (oc,
\* ec) and the fields that are no secret; no secret text comes in
ErrorOfClasses(oc, ec, c, d) ==
    IF oc = "absent"
    THEN [kind |-> "InvalidData", msg |-> "missing owner hierarchy auth"]
    ELSE IF oc = "malformed"
    THEN [kind |-> "InvalidData", msg |-> "invalid hex owner hierarchy auth"]
    ELSE IF ~IsSome(c.tcti)
    THEN [kind |-> "InvalidData", msg |-> "TCTI configuration missing"]
    ELSE IF c.tcti.val # "mssim"
    THEN [kind |-> "InvalidData", msg |-> "Invalid TCTI configuration string"]
    ELSE IF ~d.ctx_ok
    THEN [kind |-> "InvalidData", msg |-> "failed initializing TSS context"]
    ELSE IF d.accepts = {}
    THEN [kind |-> "Other", msg |-> "desired ciphers not supported"]
    ELSE IF ec = "malformed"
    THEN [kind |-> "InvalidData", msg |-> "invalid hex owner hierarchy auth"]
    ELSE IF ~IsSome(c.provider_name)
    THEN [kind |-> "InvalidData", msg |-> "missing provider name"]
    ELSE IF ~IsSome(c.key_info_store)
    THEN [kind |-> "InvalidData", msg |-> "missing key info store"]
    ELSE [kind |-> "InvalidData", msg |-> "failed initializing TSS context"]

\* C15: the error build returns is a function of the validity of the two
\* hierarchy secrets (absent, malformed, valid) and of the fields that are
\* no secret: builds that differ only in the text of a secret and fail at
\* the same step return the same kind and the same message, a constant
\* text that holds no part of the secret.
C15_ErrorIndependentOfSecret ==
    ReturnedErr =>
        LET e == ErrorOfClasses(SecretClass(input.owner_hierarchy_auth),
                                SecretClass(input.endorsement_hierarchy_auth),
                                input, device)
        IN  /\ bresult.val.kind = e.kind
            /\ bresult.val.msg = e.msg

\* "hex:0" (odd length) as owner secret was refused
C15_Witness ==
    /\ ReturnedErr
    /\ input.owner_hierarchy_auth = Some(AUTH_HEX_PREFIX \o <<48>>)
    /\ bresult.val.msg = "invalid hex owner hierarchy auth"

\* "hex:g0" (no hex digit) as owner secret was refused with the same error
C15_WitnessNonHex ==
    /\ ReturnedErr
    /\ input.owner_hierarchy_auth = Some(AUTH_HEX_PREFIX \o <<103, 48>>)
    /\ bresult.val.msg = "invalid hex owner hierarchy auth"

\* a malformed endorsement secret was refused
C15_WitnessEndorsement ==
    /\ ReturnedErr
    /\ SecretClass(input.owner_hierarchy_auth) = "valid"
    /\ "endorsement" \in locals.parsed
    /\ SecretClass(input.endorsement_hierarchy_auth) = "malformed"

\* build returned the error of a missing required input
MissingInputErrors ==
    {"TCTI configuration missing", "missing provider name",
     "missing key info store"}

\* C16 as stated: when a required input (provider name, key info store or
\* transport locator) is missing, build returns its configuration error
\* without having taken or parsed the owner or the endorsement secret.
C16_ValidationBeforeSecrets ==
    (ReturnedErr /\ bresult.val.msg \in MissingInputErrors) =>
        /\ locals.parsed = {}
        /\ cfg.owner_hierarchy_auth = input.owner_hierarchy_auth
        /\ cfg.endorsement_hierarchy_auth = input.endorsement_hierarchy_auth

\* C16, amended: build consumes secrets before it validates.  A missing
\* required input always makes build fail; the missing transport locator
\* is reported after the owner secret was taken and parsed, with the
\* endorsement secret untouched; the missing provider name or key info
\* store is reported after the owner secret and any endorsement secret
\* supplied were taken and parsed; no session is open at that return.
C16_ValidationAfterSecrets ==
    /\ (/\ Returned
        /\ \/ ~IsSome(input.tcti)
           \/ ~IsSome(input.provider_name)
           \/ ~IsSome(input.key_info_store)) => ReturnedErr
    /\ (ReturnedErr /\ bresult.val.msg \in MissingInputErrors) =>
          /\ bresult.val.kind = "InvalidData"
          /\ sessions = {}
          /\ IsSome(input.owner_hierarchy_auth)
          /\ cfg.owner_hierarchy_auth = None
          /\ "owner" \in locals.parsed
          /\ IF bresult.val.msg = "TCTI configuration missing"
             THEN /\ "endorsement" \notin locals.parsed
                  /\ cfg.endorsement_hierarchy_auth =
                         input.endorsement_hierarchy_auth
             ELSE /\ cfg.endorsement_hierarchy_auth = None
                  /\ IsSome(input.endorsement_hierarchy_auth) =>
                         "endorsement" \in locals.parsed

\* the provider name was found missing after both secrets had been taken
\* and parsed
C16_Witness ==
    /\ ReturnedErr
    /\ bresult.val.msg = "missing provider name"
    /\ locals.parsed = {"owner", "endorsement"}

\* the transport locator was found missing after the owner secret had been
\* taken and parsed
C16_WitnessTcti ==
    /\ ReturnedErr
    /\ bresult.val.msg = "TCTI configuration missing"
    /\ locals.parsed = {"owner"}
    /\ IsSome(input.endorsement_hierarchy_auth)

\* the statements of build after lines 403-404
AfterScrub ==
    {"builder", "endorsement", "parse_endorsement", "bind_endorsement",
     "scrub_endorsement", "check_name", "check_store", "build_context"}

\* the statements of build after line 417
AfterScrubEndorsement == {"check_name", "check_store", "build_context"}

\* no one of the three textual fields of the ProviderBuilder holds a text
FieldsCleared ==
    /\ cfg.tcti = None
    /\ cfg.owner_hierarchy_auth = None
    /\ cfg.endorsement_hierarchy_auth = None

\* C17: the scrubbing of build is ordered: the transport locator still
\* holds its text while it is parsed; lines 403-404 run once the parsed
\* locator and the parsed owner secret exist, and from then on, so before
\* the real session is constructed, the locator and owner fields hold no
\* text; line 417 runs once the endorsement secret is parsed and bound, and
\* from then on the endorsement field holds no text; when the real session
\* is open and when build returns Ok none of the three fields holds a text.
C17_ScrubOrder ==
    /\ bpc \in {"open_probe", "test_parms", "close_probe", "parse_tcti"} =>
          cfg.tcti = input.tcti
    /\ bpc = "scrub" =>
          /\ IsSome(locals.tcti)
          /\ IsSome(locals.owner_auth)
          /\ "owner" \in locals.parsed
    /\ bpc \in AfterScrub =>
          /\ cfg.tcti = None
          /\ cfg.owner_hierarchy_auth = None
          /\ "real" \notin sessions
    /\ bpc = "scrub_endorsement" =>
          /\ "endorsement" \in locals.parsed
          /\ IsSome(locals.builder.val.endorsement_auth)
    /\ bpc \in AfterScrubEndorsement =>
          /\ cfg.endorsement_hierarchy_auth = None
          /\ IsSome(input.endorsement_hierarchy_auth) =>
                /\ "endorsement" \in locals.parsed
                /\ IsSome(locals.builder.val.endorsement_auth)
    /\ "real" \in sessions => FieldsCleared
    /\ ReturnedOk => FieldsCleared

\* build returned Ok for a configuration that held all three texts, and
\* none of the fields holds one
C17_Witness ==
    /\ ReturnedOk
    /\ IsSome(input.tcti)
    /\ IsSome(input.owner_hierarchy_auth)
    /\ IsSome(input.endorsement_hierarchy_auth)
    /\ FieldsCleared

\* line 417 is about to run: the endorsement secret is parsed and bound
C17_WitnessEndorsement ==
    /\ bpc = "scrub_endorsement"
    /\ IsSome(locals.builder.val.endorsement_auth)

\* C18: a supplied endorsement secret that is invalid hex after "hex:"
\* makes build fail with the error a malformed owner secret gives (kind
\* InvalidData); no Provider is returned, and on no state of such a build
\* is the real session open.
C18_MalformedEndorsement ==
    /\ SecretClass(input.endorsement_hierarchy_auth) = "malformed" =>
          /\ "real" \notin sessions
          /\ ~ReturnedOk
          /\ Returned => (ReturnedErr /\ sessions = {})
          /\ (Returned /\ "endorsement" \in locals.parsed) =>
                /\ bresult.val.kind = "InvalidData"
                /\ bresult.val.msg = "invalid hex owner hierarchy auth"
    /\ (Returned /\ SecretClass(input.owner_hierarchy_auth) = "malformed") =>
          /\ ReturnedErr
          /\ bresult.val.kind = "InvalidData"
          /\ bresult.val.msg = "invalid hex owner hierarchy auth"

\* build got as far as a malformed endorsement secret and failed on it
C18_Witness ==
    /\ ReturnedErr
    /\ "endorsement" \in locals.parsed
    /\ SecretClass(input.endorsement_hierarchy_auth) = "malformed"
    /\ bresult.val.kind = "InvalidData"
    /\ IsSome(input.provider_name)
    /\ IsSome(input.key_info_store)
    /\ device.real_ok

\* C19: when the owner secret is missing or is invalid hex, build fails
\* before any session to the device is opened: on no state of such a build
\* is the probing or the real session open, the negotiation has not run,
\* and build returns an error, whatever the other fields hold.
C19_OwnerFailsBeforeSessions ==
    SecretClass(input.owner_hierarchy_auth) \in {"absent", "malformed"} =>
        /\ sessions = {}
        /\ bpc \in {"take_owner", "parse_owner", "done"}
        /\ locals.probe_result = None
        /\ locals.default_cipher = None
        /\ locals.builder = None
        /\ Returned => ReturnedErr /\ bresult.val.kind = "InvalidData"

\* build failed on a malformed owner secret though the rest of the
\* configuration and the device would have let the sessions be opened
C19_Witness ==
    /\ ReturnedErr
    /\ SecretClass(input.owner_hierarchy_auth) = "malformed"
    /\ input.tcti = Some("mssim")
    /\ DeviceWorks
    /\ sessions = {}

\* the same with no owner secret at all
C19_WitnessAbsent ==
    /\ ReturnedErr
    /\ SecretClass(input.owner_hierarchy_auth) = "absent"
    /\ input.tcti = Some("mssim")
    /\ DeviceWorks
    /\ sessions = {}

\* C20: when the provider name or the key info store is missing, build
\* fails before the real session is opened: on no state of such a build is
\* the real session open or its construction reached, and when build
\* returns the missing-field error, the negotiation has run and its probing
\* session, the only one ever opened, is closed.
C20_MissingFieldBeforeRealSession ==
    /\ (~IsSome(input.provider_name) \/ ~IsSome(input.key_info_store)) =>
          /\ "real" \notin sessions
          /\ bpc # "build_context"
          /\ ~ReturnedOk
    /\ (/\ ReturnedErr
        /\ bresult.val.msg \in {"missing provider name",
                                 "missing key info store"}) =>
          /\ ~IsSome(input.provider_name) \/ ~IsSome(input.key_info_store)
          /\ sessions = {}
          /\ IsSome(locals.probe_result)
          /\ IsSome(locals.builder)
    /\ (/\ Returned
        /\ ~IsSome(input.provider_name) \/ ~IsSome(input.key_info_store)
        /\ IsSome(locals.builder)
        /\ SecretClass(input.endorsement_hierarchy_auth) # "malformed") =>
          /\ ReturnedErr
          /\ bresult.val.msg =
                 IF ~IsSome(input.provider_name)
                 THEN "missing provider name"
                 ELSE "missing key info store"

\* the key info store was found missing on a device that would have let
\* the real session be opened
C20_Witness ==
    /\ ReturnedErr
    /\ bresult.val.msg = "missing key info store"
    /\ device.real_ok
    /\ sessions = {}

\* the same for the provider name
C20_WitnessName ==
    /\ ReturnedErr
    /\ bresult.val.msg = "missing provider name"
    /\ device.real_ok
    /\ sessions = {}

(***************************************************************************)
(* Properties of the Provider's operations (Spec, FairSpec)                *)
(***************************************************************************)
\* C1: at most one operation is inside a hardware interaction on the
\* session, and the one that is holds the session lock: an interaction
\* starts only after the lock is acquired and ends before another starts.
C1_MutualExclusion ==
    /\ Cardinality(hwActive) <= 1
    /\ \A t \in hwActive : lock = t

\* one thread is inside the hardware while another is blocked on the lock
C1_Witness ==
    \E t, u \in Threads :
        /\ t # u
        /\ t \in hwActive
        /\ pc[u] = "waiting"

\* C2: an operation that acquired the session lock has released it when
\* it returns, with a result or with an error, so every operation blocked
\* on the lock acquires it in the end (threads keep running and hardware
\* calls return).
C2_LockReleased ==
    /\ [](\A t \in Threads : pc[t] = "idle" => lock # t)
    /\ \A t \in Threads : (pc[t] = "waiting") ~> (lock = t)

\* a thread failed inside the session and another holds the lock after it
C2_Witness ==
    \E t, u \in Threads :
        /\ t # u
        /\ pc[t] = "idle"
        /\ result[t].status \in HwErrors
        /\ lock = u

CapabilityOps == {"describe", "can_do_crypto"}

\* C3: describe and can_do_crypto never acquire the session lock: a thread
\* running one is never waiting for the lock or holding it, the call can
\* be made and returns whoever holds the lock, and it changes nothing of
\* the hardware session.
C3_CapabilityLockFree ==
    /\ [](\A t \in Threads :
            /\ op[t].kind \in CapabilityOps => (pc[t] = "idle" /\ lock # t)
            /\ (pc[t] = "idle" /\ calls < MaxCalls) =>
                  (ENABLED describe(t) /\ ENABLED can_do_crypto(t)))
    /\ [][\A t \in Threads :
            (op'[t] # op[t] /\ op'[t].kind \in CapabilityOps) =>
                /\ result'[t].status = "Ok"
                /\ pc'[t] = "idle"
                /\ UNCHANGED <<lock, hwActive, hwCount>>]_vars

\* describe returned while another thread held the lock, inside the hardware
C3_Witness ==
    \E t, u \in Threads :
        /\ t # u
        /\ op[t].kind = "describe"
        /\ result[t].status = "Ok"
        /\ result[t].during = u
        /\ lock = u
        /\ u \in hwActive

\* can_do_crypto returned while another thread held the lock
C3_WitnessCanDo ==
    \E t, u \in Threads :
        /\ t # u
        /\ op[t].kind = "can_do_crypto"
        /\ result[t].status = "Ok"
        /\ result[t].during = u
        /\ lock = u

RecordsOf(a, n) == {r \in store : r.app = a /\ r.name = n}

\* two threads have each made one call, psa_generate_key for the same
\* caller, these are the only calls made, and both have returned
TwoGenerateCalls(t, u) ==
    /\ t # u
    /\ calls = 2
    /\ op[t].kind = "psa_generate_key"
    /\ op[u].kind = "psa_generate_key"
    /\ op[t].app = op[u].app
    /\ pc[t] = "idle"
    /\ pc[u] = "idle"

\* C4: two psa_generate_key calls by the same caller, in any interleaving.
\* With different names neither call conflicts: each succeeds unless the
\* hardware primitive itself failed, and each success registers its own
\* record.  With the same name the calls never both succeed: one succeeds
\* and the other returns the conflict error (unless the hardware failed),
\* and the store holds exactly one record for that caller and name.
C4_ConcurrentGenerate ==
    \A t, u \in Threads :
        TwoGenerateCalls(t, u) =>
            LET a == op[t].app
                rt == result[t].status
                ru == result[u].status
                hwOk == rt \notin HwErrors /\ ru \notin HwErrors
            IN  IF op[t].name # op[u].name
                THEN /\ rt # "ConflictError" /\ ru # "ConflictError"
                     /\ hwOk => (rt = "Ok" /\ ru = "Ok")
                     /\ rt = "Ok" => Cardinality(RecordsOf(a, op[t].name)) = 1
                     /\ ru = "Ok" => Cardinality(RecordsOf(a, op[u].name)) = 1
                ELSE /\ ~(rt = "Ok" /\ ru = "Ok")
                     /\ hwOk => \/ rt = "Ok" /\ ru = "ConflictError"
                                \/ rt = "ConflictError" /\ ru = "Ok"
                     /\ Cardinality(RecordsOf(a, op[t].name)) <= 1
                     /\ (rt = "Ok" \/ ru = "Ok") =>
                            Cardinality(RecordsOf(a, op[t].name)) = 1

\* the same name, both calls went through the hardware (so both had passed
\* the existence check before either registered), one success one conflict
C4_Witness ==
    \E t, u \in Threads :
        /\ TwoGenerateCalls(t, u)
        /\ op[t].name = op[u].name
        /\ hwCount = 2
        /\ result[t].status = "Ok"
        /\ result[u].status = "ConflictError"

\* different names, both calls succeeded, two records
C4_WitnessDistinct ==
    \E t, u \in Threads :
        /\ TwoGenerateCalls(t, u)
        /\ op[t].name # op[u].name
        /\ result[t].status = "Ok"
        /\ result[u].status = "Ok"
        /\ Cardinality({r \in store : r.app = op[t].app}) = 2

\* thread t is the one that invokes an operation in this step
Caller(t) ==
    /\ pc[t] = "idle"
    /\ calls' = calls + 1
    /\ \A u \in Threads \ {t} :
          op'[u] = op[u] /\ result'[u] = result[u] /\ pc'[u] = pc[u]

C13_Step ==
    /\ calls' # calls =>
          \E t \in Threads :
              /\ Caller(t)
              /\ (/\ op'[t].kind = "psa_destroy_key"
                  /\ ~Exists(store, op'[t].app, op'[t].name)) =>
                    /\ result'[t] = Failed("NotFoundError")
                    /\ pc'[t] = "idle"
                    /\ store' = store
    /\ \A t \in Threads :
          (/\ op[t].kind = "psa_destroy_key"
           /\ pc[t] = "update"
           /\ result'[t].status = "NotFoundError") => store' = store

\* C13: psa_destroy_key on a (caller, key name) with no record in the
\* key-metadata store returns NotFoundError, and the step that answers
\* NotFoundError leaves every record of the store as it was.
C13_DestroyAbsentKey == [][C13_Step]_vars

\* a destroy was answered NotFoundError while the store held the record of
\* another caller or of another key
C13_Witness ==
    \E t \in Threads :
        /\ op[t].kind = "psa_destroy_key"
        /\ result[t].status = "NotFoundError"
        /\ store # {}
        /\ ~Exists(store, op[t].app, op[t].name)

\* the records of the callers other than a
RecordsOfOthers(st, a) == {r \in st : r.app # a}

\* what the call of thread t in this step may see: the caller's own records
C14_Call(t) ==
    LET a == op'[t].app
        n == op'[t].name
    IN  /\ store' = store
        /\ op'[t].kind = "psa_generate_key" =>
              IF RecordsOf(a, n) = {}
              THEN pc'[t] = "waiting"
              ELSE result'[t] = Failed("ConflictError") /\ pc'[t] = "idle"
        /\ op'[t].kind = "psa_destroy_key" =>
              IF RecordsOf(a, n) = {}
              THEN result'[t] = Failed("NotFoundError") /\ pc'[t] = "idle"
              ELSE pc'[t] = "waiting"
        /\ op'[t].kind = "list_keys" =>
              /\ result'[t].status = "Ok"
              /\ result'[t].keys = {m \in Names : RecordsOf(a, m) # {}}

\* what the store update of thread t in this step may touch: the record
\* (caller, name) of the operation, nothing of another caller
C14_Update(t) ==
    LET a == op[t].app
        n == op[t].name
    IN  /\ RecordsOfOthers(store', a) = RecordsOfOthers(store, a)
        /\ {r \in store' : r.name # n} = {r \in store : r.name # n}
        /\ op[t].kind = "psa_generate_key" =>
              IF RecordsOf(a, n) = {}
              THEN /\ result'[t] = Ok
                   /\ store' = store \cup {[app |-> a, name |-> n, blob |-> t]}
              ELSE result'[t] = Failed("ConflictError") /\ store' = store
        /\ op[t].kind = "psa_destroy_key" =>
              IF RecordsOf(a, n) = {}
              THEN result'[t] = Failed("NotFoundError") /\ store' = store
              ELSE result'[t] = Ok /\ store' = store \ RecordsOf(a, n)

C14_Step ==
    /\ calls' # calls => \E t \in Threads : Caller(t) /\ C14_Call(t)
    /\ \A t \in Threads :
          (pc[t] = "update" /\ pc'[t] # "update") => C14_Update(t)
    /\ store' # store => \E t \in Threads : pc[t] = "update"

C14_WitnessDestroy ==
    \E t \in Threads :
        /\ op[t].kind = "psa_destroy_key"
        /\ result[t].status = "NotFoundError"
        /\ \E r \in store : r.name = op[t].name /\ r.app # op[t].app

\* a caller's list_keys came back empty while the other caller holds a key
C14_WitnessList ==
    \E t \in Threads :
        /\ op[t].kind = "list_keys"
        /\ pc[t] = "idle"
        /\ result[t].status = "Ok"
        /\ result[t].keys = {}
        /\ store # {}

====
